---- MODULE Spec2Model ----
(***************************************************************************)
(* panorama.c: downsample a spherical panorama (P6 container in, P6 out).  *)
(*                                                                         *)
(* Three specifications share this module:                                 *)
(*   SpecRead  main's call of read_ppm, one action per code step, the      *)
(*             input stream delivered byte by byte by fgetc;               *)
(*   SpecMain  main from argv to exit, write_ppm pixel by pixel;           *)
(*   SpecDown  downsample, one action per loop body.                       *)
(* A variable a specification does not use keeps its idle value.           *)
(***************************************************************************)
EXTENDS Integers, Sequences, FiniteSets

VARIABLES
    \* ---- read_ppm (SpecRead)
    rpc,        \* position in read_ppm / main
    c,          \* int c: the last byte fgetc returned, or EOF
    str,        \* char str[16]: the digits stored so far (str[0..n-1])
    integer,    \* int integer[3]: the fields converted so far (integer[0..i-1])
    image,      \* struct image *image: NULL or the image record
    px,         \* the pixel loop's i
    diag,       \* the diagnostic printed on stderr ("none" while silent)
    result,     \* what read_ppm returned: "none" (still running), "null", "image"
    status,     \* how the process ended: "running", "exit 1", or "SIGSEGV"
    nread,      \* bytes fgetc has delivered so far
    atEof,      \* the stream has ended (fgetc returned EOF once)
    inComment,  \* history: the last header byte delivered lies in an open '#' comment
    cComment,   \* history: the byte in c is part of a '#' comment (the '#' included)
    usedComment,\* history: a byte of a comment was stored into str
    junk,       \* history: the gap before a field held a byte outside comments
                \* that is no digit and no blank
    hdrEnd,     \* history: nread when the third field was converted (-1 before)
    run,        \* history: the digits the stream holds since its last non-digit
    eofAt,      \* history: where end-of-stream was hit: "none", "header", "pixels"
    \* ---- main and write_ppm (SpecMain)
    mpc,        \* position in main / write_ppm
    output,     \* struct image *output (pixel values are not tracked here)
    input,      \* struct image *input
    mdiag,      \* the diagnostic printed on stderr
    mstatus,    \* how the process ended: "running", "exit 0", "exit 1", a signal
    called,     \* history: which of downsample and write_ppm main has called
    fileExists, \* output.ppm exists: fopen(name, "w") created or truncated it
    headerOk,   \* the header reached the file
    wi,         \* write_ppm's loop index i: pixels written to the file
    \* ---- downsample (SpecDown)
    dpc,        \* position in downsample
    out,        \* struct image *output: buffer[k] is "unset" until ob[k] is stored
    inp,        \* struct image *input: buffer is a function index -> colour
    radius,     \* int radius
    oj,         \* output row
    oi,         \* output column
    weight,     \* int weight of the row
    aj,         \* kernel row offset
    ai,         \* kernel column offset
    kernel_sum, \* float kernel_sum, in units of 1 / GOne
    rgb_sum,    \* struct rgb rgb_sum, in units of 1 / (GOne * COne)
    offColumn,  \* history: a sample's ii fell outside [0, iw - 1]
    offRow,     \* history: a sample's ij fell outside [0, ih - 1]
    offBuffer,  \* history: a sample read ib outside [0, iw * ih)
    dstatus,    \* "running", "returned", or the signal that killed the process
    nsamples,   \* history: kernel iterations run for the current pixel
    sampled,    \* history: the colours read for the current pixel
    last        \* history: the pixel just stored and what it was computed from

rvars == <<rpc, c, str, integer, image, px, diag, result, status, nread, atEof,
           inComment, cComment, usedComment, junk, hdrEnd, run, eofAt>>

mvars == <<mpc, output, input, mdiag, mstatus, called, fileExists, headerOk, wi>>

dvars == <<dpc, out, inp, radius, oj, oi, weight, aj, ai, kernel_sum, rgb_sum,
           offColumn, offRow, offBuffer, dstatus, nsamples, sampled, last>>

vars == <<rvars, mvars, dvars>>

(***************************************************************************)
(* Bounds of the model.                                                    *)
(***************************************************************************)
\* Longest input stream: fgetc returns EOF once this many bytes were delivered.
MaxStream == 14
\* Largest number of digits of a header number.
MaxDigits == 3
\* Fixed-point unit of a colour channel: the float 1.0f is COne.
COne == 64

(***************************************************************************)
(* Bytes.                                                                  *)
(***************************************************************************)
EOF == -1
NL == 10
HASH == 35
CharP == 80
Char6 == 54
Char0 == 48
Char9 == 57

\* The bytes the model's streams are made of: "P6" candidates, header bytes
\* (newline, space, '#', a letter, the digits 0 1 2 5) and channel bytes.
MagicBytes == {CharP, Char6, 120}
Blanks == {NL, 32}
Digits == {48, 49, 50, 53}
HeaderBytes == Blanks \cup {HASH, 120} \cup Digits
PixelBytes == {0, 255}

IsDigit(b) == Char0 <= b /\ b <= Char9

\* fgetc(file): the next byte of the stream, drawn from `bytes`, or EOF; EOF for
\* good once the stream has ended, and at the latest after MaxStream bytes.
Fgetc(bytes) ==
    IF atEof \/ nread >= MaxStream THEN {EOF} ELSE bytes \cup {EOF}

\* The numbers the model's headers are written with, as digit strings of at
\* most MaxDigits digits: 0, 1, 2 and 255.
Numerals ==
    {n \in {<<48>>, <<49>>, <<50>>, <<50, 53, 53>>} : Len(n) <= MaxDigits}

IsPrefix(s, t) == Len(s) <= Len(t) /\ SubSeq(t, 1, Len(s)) = s

\* The header bytes that may follow the digit run r: a digit only when it
\* continues r towards one of Numerals.
HeaderNext(r) ==
    {b \in HeaderBytes :
        b \in Digits => \E n \in Numerals : IsPrefix(Append(r, b), n)}

\* atoi(str) of a string of decimal digits (no overflow: Len(s) <= MaxDigits).
RECURSIVE atoi(_)
atoi(s) ==
    IF s = <<>> THEN 0
    ELSE 10 * atoi(SubSeq(s, 1, Len(s) - 1)) + (s[Len(s)] - Char0)

StrCap == 15

(***************************************************************************)
(* Color transfer, in fixed point (COne is 1.0f).                          *)
(***************************************************************************)
\* The largest r with r^5 <= n.
FifthRoot(n) ==
    CHOOSE r \in 0..(COne + 1) :
        /\ r * r * r * r * r <= n
        /\ (r + 1) * (r + 1) * (r + 1) * (r + 1) * (r + 1) > n

\* powf(x, 2.4f) for x in [0, 1]: x^2 * (x^2)^(1/5).
Pow24(x) == (x * x * FifthRoot(x * x * COne * COne * COne)) \div (COne * COne)

\* linear(v): v <= K0 ? v / phi : powf((v + a) / (1 + a), gamma), with
\* K0 = 0.03928, a = 0.055, phi = 12.92, gamma = 2.4.
linear(v) ==
    IF v * 100000 <= 3928 * COne
    THEN (v * 100) \div 1292
    ELSE Pow24(((v * 1000 + 55 * COne) * 1000) \div (1055 * 1000))

\* linear(r / 255.0f) of a channel byte.
LinearByte(b) == linear((b * COne) \div 255)

(***************************************************************************)
(* struct image.                                                           *)
(***************************************************************************)
\* A struct image * is NULL or points to one image: <<>> or <<the image>>.
NULL == <<>>

\* new_image(name, width, height): total = width * height, a fresh buffer.
new_image(name, width, height) ==
    [name |-> name, width |-> width, height |-> height,
     total |-> width * height, buffer |-> <<>>]

(***************************************************************************)
(* read_ppm.                                                               *)
(***************************************************************************)
\* History of the header grammar: a comment runs from '#' to the end of line.
InCommentAfter(b) == IF inComment THEN b # NL ELSE b = HASH
PartOfComment(b) == b # EOF /\ (inComment \/ b = HASH)
IsJunk(b) == b # EOF /\ ~PartOfComment(b) /\ ~IsDigit(b) /\ b \notin Blanks

\* One header byte b delivered by fgetc into c; gap: the byte is read on the
\* way to the first digit of a field.
HeaderByte(b, gap) ==
    /\ c' = b
    /\ nread' = IF b = EOF THEN nread ELSE nread + 1
    /\ atEof' = (atEof \/ b = EOF)
    /\ inComment' = IF b = EOF THEN inComment ELSE InCommentAfter(b)
    /\ cComment' = PartOfComment(b)
    /\ junk' = (junk \/ (gap /\ IsJunk(b)))
    /\ run' = IF b = EOF THEN run ELSE IF IsDigit(b) THEN Append(run, b) ELSE <<>>

\* goto eof from the header or from the pixel loop.
GotoEof(where) ==
    /\ rpc' = "eof"
    /\ eofAt' = where

\* return 0 with a diagnostic.
ReturnNull(d) ==
    /\ diag' = d
    /\ result' = "null"
    /\ rpc' = "returned"

\* A depth check that lets every maxval up to 255 through.
DepthUpTo255(maxval) == maxval <= 255

\* Line 229: 255 != integer[2] is rejected.
DepthSupported(maxval) == maxval = 255

\* Lines 188-192: fopen(name, "r").
ReadOpen ==
    /\ rpc = "open"
    /\ \E ok \in BOOLEAN :
        IF ok THEN /\ rpc' = "magic"
                   /\ UNCHANGED <<diag, result>>
        ELSE ReturnNull("could not open")
    /\ UNCHANGED <<c, str, integer, image, px, status, nread, atEof,
                   inComment, cComment, usedComment, junk, run, hdrEnd, eofAt>>
    /\ UNCHANGED <<mvars, dvars>>

\* Lines 193-197: 'P' != fgetc(file) || '6' != fgetc(file); the second byte is
\* read only when the first is 'P'.
ReadMagic ==
    /\ rpc = "magic"
    /\ \E b1 \in Fgetc(MagicBytes) :
        IF b1 # CharP
        THEN /\ ReturnNull("not P6")
             /\ nread' = IF b1 = EOF THEN nread ELSE nread + 1
             /\ atEof' = (b1 = EOF)
        ELSE \E b2 \in (IF nread + 1 >= MaxStream THEN {EOF} ELSE MagicBytes \cup {EOF}) :
             /\ nread' = IF b2 = EOF THEN nread + 1 ELSE nread + 2
             /\ atEof' = (b2 = EOF)
             /\ IF b2 # Char6 THEN ReturnNull("not P6")
                ELSE /\ rpc' = "sep"
                     /\ UNCHANGED <<diag, result>>
    /\ UNCHANGED <<c, str, integer, image, px, status,
                   inComment, cComment, usedComment, junk, run, hdrEnd, eofAt>>
    /\ UNCHANGED <<mvars, dvars>>

\* Lines 200-202: the byte after "P6".
ReadSeparator ==
    /\ rpc = "sep"
    /\ \E b \in Fgetc(HeaderNext(run)) :
        /\ HeaderByte(b, FALSE)
        /\ IF b = EOF THEN GotoEof("header")
           ELSE /\ rpc' = "comment"
                /\ UNCHANGED eofAt
    /\ UNCHANGED <<str, integer, image, px, diag, result, status, usedComment, hdrEnd>>
    /\ UNCHANGED <<mvars, dvars>>

\* Line 204: while ('#' == (c = fgetc(file))).
ReadCommentStart ==
    /\ rpc = "comment"
    /\ \E b \in Fgetc(HeaderNext(run)) :
        /\ HeaderByte(b, TRUE)
        /\ rpc' = IF b = HASH THEN "incomment" ELSE "skip"
    /\ UNCHANGED <<str, integer, image, px, diag, result, status, usedComment,
                   hdrEnd, eofAt>>
    /\ UNCHANGED <<mvars, dvars>>

\* Lines 205-207: while ('\n' != (c = fgetc(file))) if (EOF == c) goto eof.
ReadCommentBody ==
    /\ rpc = "incomment"
    /\ \E b \in Fgetc(HeaderNext(run)) :
        /\ HeaderByte(b, FALSE)
        /\ IF b = EOF THEN GotoEof("header")
           ELSE /\ rpc' = IF b = NL THEN "comment" ELSE "incomment"
                /\ UNCHANGED eofAt
    /\ UNCHANGED <<str, integer, image, px, diag, result, status, usedComment, hdrEnd>>
    /\ UNCHANGED <<mvars, dvars>>

\* Lines 208-210: while ((c < '0') || ('9' < c)) if (EOF == (c = fgetc(file))) goto eof.
ReadSkip ==
    /\ rpc = "skip"
    /\ IF IsDigit(c)
       THEN /\ rpc' = "digits"
            /\ str' = <<>>
            /\ UNCHANGED <<c, nread, atEof, inComment, cComment, junk, run, eofAt>>
       ELSE \E b \in Fgetc(HeaderNext(run)) :
            /\ HeaderByte(b, TRUE)
            /\ IF b = EOF THEN GotoEof("header")
               ELSE /\ rpc' = "skip"
                    /\ UNCHANGED eofAt
            /\ UNCHANGED str
    /\ UNCHANGED <<integer, image, px, diag, result, status, usedComment, hdrEnd>>
    /\ UNCHANGED <<mvars, dvars>>

\* Lines 212-222: one round of the digit loop; at the first non-digit (or with
\* str full) the string is closed and converted.
ReadDigit ==
    /\ rpc = "digits"
    /\ IF IsDigit(c) /\ Len(str) < StrCap
       THEN /\ str' = Append(str, c)
            /\ usedComment' = (usedComment \/ cComment)
            /\ \E b \in Fgetc(HeaderNext(run)) :
                /\ HeaderByte(b, FALSE)
                /\ IF b = EOF THEN GotoEof("header")
                   ELSE /\ rpc' = "digits"
                        /\ UNCHANGED eofAt
            /\ UNCHANGED <<integer, hdrEnd>>
       ELSE /\ integer' = Append(integer, atoi(str))
            /\ rpc' = IF Len(integer') < 3 THEN "comment" ELSE "check"
            /\ hdrEnd' = IF Len(integer') < 3 THEN hdrEnd ELSE nread
            /\ UNCHANGED <<c, str, nread, atEof, inComment, cComment, junk, run,
                           usedComment, eofAt>>
    /\ UNCHANGED <<image, px, diag, result, status>>
    /\ UNCHANGED <<mvars, dvars>>

\* Lines 224-234: the header checks, then new_image.
ReadCheck ==
    /\ rpc = "check"
    /\ IF integer[1] = 0 /\ integer[2] = 0 /\ integer[3] = 0
       THEN /\ ReturnNull("could not read")
            /\ UNCHANGED <<image, px>>
       ELSE IF ~DepthSupported(integer[3])
       THEN /\ ReturnNull("only 8 bit")
            /\ UNCHANGED <<image, px>>
       ELSE /\ image' = <<new_image("input", integer[1], integer[2])>>
            /\ px' = 0
            /\ rpc' = "pixels"
            /\ UNCHANGED <<diag, result>>
    /\ UNCHANGED <<c, str, integer, status, nread, atEof, inComment, cComment,
                   usedComment, junk, run, hdrEnd, eofAt>>
    /\ UNCHANGED <<mvars, dvars>>

\* The three fgetc calls of one pixel: each is EOF once the stream has ended.
PixelReads ==
    LET left == IF atEof THEN 0 ELSE MaxStream - nread
        Ch(k) == IF left >= k THEN PixelBytes \cup {EOF} ELSE {EOF}
    IN {t \in Ch(1) \X Ch(2) \X Ch(3) :
          /\ t[1] = EOF => t[2] = EOF
          /\ t[2] = EOF => t[3] = EOF}

\* Lines 235-244: one round of the pixel loop, or the return of the image.
ReadPixel ==
    /\ rpc = "pixels"
    /\ IF px < image[1].total
       THEN \E t \in PixelReads :
            /\ nread' = nread + Cardinality({k \in 1..3 : t[k] # EOF})
            /\ atEof' = (atEof \/ t[3] = EOF)
            /\ IF t[3] = EOF
               THEN /\ GotoEof("pixels")
                    /\ UNCHANGED <<image, px, result>>
               ELSE /\ image' = [image EXCEPT ![1].buffer = Append(@,
                            <<LinearByte(t[1]), LinearByte(t[2]), LinearByte(t[3])>>)]
                    /\ px' = px + 1
                    /\ UNCHANGED <<rpc, result, eofAt>>
       ELSE /\ result' = "image"
            /\ rpc' = "returned"
            /\ UNCHANGED <<image, px, nread, atEof, eofAt>>
    /\ UNCHANGED <<c, str, integer, diag, status, inComment, cComment,
                   usedComment, junk, run, hdrEnd>>
    /\ UNCHANGED <<mvars, dvars>>

\* delete_image(image), lines 49-53: free(image->buffer) reads through the
\* pointer. With image == NULL that is undefined: the process is killed by
\* SIGSEGV, or the build gets away with it and the call returns.
delete_image(img) ==
    IF img = NULL THEN {"SIGSEGV", "returns"} ELSE {"returns"}

\* Lines 245-249: the eof label.
ReadEofLabel ==
    /\ rpc = "eof"
    /\ diag' = "EOF"
    /\ \E o \in delete_image(image) :
        IF o = "SIGSEGV"
        THEN /\ status' = "SIGSEGV"
             /\ rpc' = "exit"
             /\ UNCHANGED result
        ELSE /\ result' = "null"
             /\ rpc' = "returned"
             /\ UNCHANGED status
    /\ UNCHANGED <<c, str, integer, image, px, nread, atEof, inComment, cComment,
                   usedComment, junk, run, hdrEnd, eofAt>>
    /\ UNCHANGED <<mvars, dvars>>

\* main, lines 291-293: if (!input) return 1; with an image main goes on to
\* the size check.
MainInput ==
    /\ rpc = "returned"
    /\ IF result = "null"
       THEN /\ status' = "exit 1"
            /\ rpc' = "exit"
       ELSE /\ rpc' = "sizecheck"
            /\ UNCHANGED status
    /\ UNCHANGED <<c, str, integer, image, px, diag, result, nread, atEof,
                   inComment, cComment, usedComment, junk, run, hdrEnd, eofAt>>
    /\ UNCHANGED <<mvars, dvars>>

\* The state after construction, for each group of variables.
StartRead ==
    /\ rpc = "open"
    /\ c = 0
    /\ str = <<>>
    /\ integer = <<>>
    /\ image = NULL
    /\ px = 0
    /\ diag = "none"
    /\ result = "none"
    /\ status = "running"
    /\ nread = 0
    /\ atEof = FALSE
    /\ inComment = FALSE
    /\ cComment = FALSE
    /\ usedComment = FALSE
    /\ junk = FALSE
    /\ hdrEnd = -1
    /\ run = <<>>
    /\ eofAt = "none"

(***************************************************************************)
(* main and write_ppm (SpecMain). read_ppm and downsample are taken by     *)
(* their outcomes here; SpecRead and SpecDown model them step by step.     *)
(***************************************************************************)
\* Largest width and height of an input image.
MaxIn == 2
\* Largest width and height asked for on the command line.
MaxOut == 3

\* What read_ppm(argv[2]) can do, lines 186-250: return 0, die in
\* delete_image(0), or return an image of the header's size.
ReadPpmOutcomes ==
    {<<"null">>, <<"SIGSEGV">>}
        \cup {<<"image", w, h>> : w \in 0..MaxIn, h \in 0..MaxIn}

\* What downsample can do with these sizes, line 153: iw / ow and ih / oh are
\* integer divisions, undefined for a zero divisor (SIGFPE where the division
\* traps).
DownsampleOutcomes(ow, oh) ==
    IF ow = 0 \/ oh = 0 THEN {"SIGFPE", "returns"} ELSE {"returns"}

\* A size check that rejects only when both sides are too large.
SizeRejectedBoth(iw, ih, ow, oh) == iw < ow /\ ih < oh

\* Line 294: input->width < output->width || input->height < output->height.
SizeRejected(iw, ih, ow, oh) == iw < ow \/ ih < oh

\* return 1 (or death by a signal) out of main.
MainExit(st, d) ==
    /\ mpc' = "exit"
    /\ mstatus' = st
    /\ mdiag' = d

\* Lines 282-290: the argument count, the split at 'x' (strchr returns NULL
\* without an 'x', and *seperator = 0 then writes through NULL), new_image.
MainArgs ==
    /\ mpc = "start"
    /\ \E argc \in {2, 3}, hasX \in BOOLEAN, w \in 0..MaxOut, h \in 0..MaxOut :
        IF argc # 3 THEN /\ MainExit("exit 1", "usage")
                         /\ UNCHANGED output
        ELSE IF ~hasX THEN /\ MainExit("SIGSEGV", "none")
                           /\ UNCHANGED output
        ELSE /\ output' = <<new_image("output.ppm", w, h)>>
             /\ mpc' = "read"
             /\ UNCHANGED <<mstatus, mdiag>>
    /\ UNCHANGED <<input, called, fileExists, headerOk, wi>>
    /\ UNCHANGED <<rvars, dvars>>

\* Lines 291-293: input = read_ppm(argv[2]); if (!input) return 1.
MainRead ==
    /\ mpc = "read"
    /\ \E r \in ReadPpmOutcomes :
        IF r[1] = "null" THEN /\ MainExit("exit 1", "read_ppm")
                              /\ UNCHANGED input
        ELSE IF r[1] = "SIGSEGV" THEN /\ MainExit("SIGSEGV", "read_ppm")
                                      /\ UNCHANGED input
        ELSE /\ input' = <<new_image("input", r[2], r[3])>>
             /\ mpc' = "sizecheck"
             /\ UNCHANGED <<mstatus, mdiag>>
    /\ UNCHANGED <<output, called, fileExists, headerOk, wi>>
    /\ UNCHANGED <<rvars, dvars>>

\* Lines 294-297: the size check.
MainSizeCheck ==
    /\ mpc = "sizecheck"
    /\ IF SizeRejected(input[1].width, input[1].height,
                       output[1].width, output[1].height)
       THEN MainExit("exit 1", "must be smaller or equal")
       ELSE /\ mpc' = "downsample"
            /\ UNCHANGED <<mstatus, mdiag>>
    /\ UNCHANGED <<output, input, called, fileExists, headerOk, wi>>
    /\ UNCHANGED <<rvars, dvars>>

\* Line 298: downsample(output, input).
MainDownsample ==
    /\ mpc = "downsample"
    /\ called' = called \cup {"downsample"}
    /\ \E o \in DownsampleOutcomes(output[1].width, output[1].height) :
        IF o = "SIGFPE" THEN MainExit("SIGFPE", "none")
        ELSE /\ mpc' = "write_open"
             /\ UNCHANGED <<mstatus, mdiag>>
    /\ UNCHANGED <<output, input, fileExists, headerOk, wi>>
    /\ UNCHANGED <<rvars, dvars>>

\* write_ppm, lines 254-258: fopen(image->name, "w") creates or truncates the
\* file; on failure write_ppm returns 0 and main returns 1 (lines 299-300).
WriteOpen ==
    /\ mpc = "write_open"
    /\ called' = called \cup {"write_ppm"}
    /\ \E ok \in BOOLEAN :
        IF ok THEN /\ fileExists' = TRUE
                   /\ mpc' = "write_header"
                   /\ UNCHANGED <<mstatus, mdiag>>
        ELSE /\ MainExit("exit 1", "could not open to write")
             /\ UNCHANGED fileExists
    /\ UNCHANGED <<output, input, headerOk, wi>>
    /\ UNCHANGED <<rvars, dvars>>

\* Lines 259-263: fprintf returns the number of bytes printed, or a negative
\* number on an output error; !fprintf(...) is false for both, so write_ppm
\* goes on to the pixels either way.
WriteHeader ==
    /\ mpc = "write_header"
    /\ \E n \in {-1, 11} :
        IF n = 0 THEN /\ MainExit("exit 1", "could not write")
                      /\ UNCHANGED <<headerOk, wi>>
        ELSE /\ headerOk' = (n > 0)
             /\ wi' = 0
             /\ mpc' = "write_pixels"
             /\ UNCHANGED <<mstatus, mdiag>>
    /\ UNCHANGED <<output, input, called, fileExists>>
    /\ UNCHANGED <<rvars, dvars>>

\* Lines 264-278: the three fputc of one pixel, each of which can return EOF
\* (goto eof: fclose, return 0, and main returns 1); after the last pixel
\* fclose, return 1, and main returns 0. Nothing removes the file.
WritePixel ==
    /\ mpc = "write_pixels"
    /\ IF wi < output[1].total
       THEN \E written \in 0..3 :
            IF written < 3 THEN /\ MainExit("exit 1", "EOF while writing")
                                /\ UNCHANGED wi
            ELSE /\ wi' = wi + 1
                 /\ UNCHANGED <<mpc, mstatus, mdiag>>
       ELSE /\ MainExit("exit 0", mdiag)
            /\ UNCHANGED wi
    /\ UNCHANGED <<output, input, called, fileExists, headerOk>>
    /\ UNCHANGED <<rvars, dvars>>

StartMain ==
    /\ mpc = "start"
    /\ output = NULL
    /\ input = NULL
    /\ mdiag = "none"
    /\ mstatus = "running"
    /\ called = {}
    /\ fileExists = FALSE
    /\ headerOk = FALSE
    /\ wi = 0

\* The variables of main while another specification runs.
IdleMain ==
    /\ mpc = "idle"
    /\ output = NULL
    /\ input = NULL
    /\ mdiag = "none"
    /\ mstatus = "running"
    /\ called = {}
    /\ fileExists = FALSE
    /\ headerOk = FALSE
    /\ wi = 0

(***************************************************************************)
(* downsample (SpecDown). Floats are fixed-point integers: a kernel weight *)
(* counts units of 1 / GOne, a colour channel units of 1 / COne, a texture *)
(* coordinate units of 1 / UVOne. Sums and products are exact; expf and    *)
(* the final division round.                                               *)
(***************************************************************************)
\* Fixed-point unit of a kernel weight: the float 1.0f is GOne.
GOne == 64
\* Fixed-point unit of a texture coordinate: u = 1.0f is UVOne.
UVOne == 2
\* Fixed-point unit inside expf.
ExpOne == 16384

Max(a, b) == IF a >= b THEN a ELSE b
Min(a, b) == IF a <= b THEN a ELSE b

\* e^(-s) for 0 <= s <= 1, s in units of 1 / ExpOne: the Taylor series to the
\* sixth power.
ExpSmall(s) ==
    LET t2 == (s * s) \div (2 * ExpOne)
        t3 == (t2 * s) \div (3 * ExpOne)
        t4 == (t3 * s) \div (4 * ExpOne)
        t5 == (t4 * s) \div (5 * ExpOne)
        t6 == (t5 * s) \div (6 * ExpOne)
    IN ExpOne - s + t2 - t3 + t4 - t5 + t6

FSquare(a) == (a * a) \div ExpOne

\* expf(-num / den) for 0 <= num / den <= 16, in units of 1 / ExpOne:
\* e^(-t) = (e^(-t/16))^16.
expf_neg(num, den) ==
    FSquare(FSquare(FSquare(FSquare(ExpSmall((num * ExpOne) \div (16 * den))))))

\* gauss(x, y, radius), lines 141-145: sigma = radius / 3, and
\* radius ? expf(-(x*x + y*y) / (2 sigma^2)) / (2 pi sigma^2) : 1.0f.
\* 2 sigma^2 = 2 radius^2 / 9, and 1 / (2 pi) = 113 / 710.
gauss(x, y, r) ==
    IF r # 0
    THEN ((expf_neg(9 * (x * x + y * y), 2 * r * r) * 9 * GOne * 113)
              \div (710 * r * r)) \div ExpOne
    ELSE GOne

\* Line 161: weight = fminf(8.0f, 1.0f / sinf(pol.v * M_PI)) with pol.v = oj / oh,
\* truncated to int. 1 / sin(pi v) >= k exactly when v or 1 - v is at most
\* asin(1 / k) / pi; the table holds these thresholds in millionths.
WeightThreshold ==
    [k \in 2..8 |-> CASE k = 2 -> 166667 [] k = 3 -> 108173 [] k = 4 -> 80431
                      [] k = 5 -> 64094 [] k = 6 -> 53300 [] k = 7 -> 45629
                      [] OTHER -> 39893]

RowWeight(j, h) ==
    LET m == Min(j, h - j)
        S == {k \in 2..8 : m * 1000000 <= WeightThreshold[k] * h}
    IN IF S = {} THEN 1 ELSE CHOOSE k \in S : \A l \in S : l <= k

\* Line 153: int radius = fmaxf(iw / ow, ih / oh) / 2.0f, for non-zero divisors.
Radius(iw, ow, ih, oh) == Max(iw \div ow, ih \div oh) \div 2

\* uv_sphere, lines 66-72: u = 0.5 + atan2f(z, x) / (2 pi) with atan2f in
\* [-pi, pi] and v = acosf(y) / pi with acosf in [0, pi]: every (u, v) with
\* 0 <= u <= 1 and 0 <= v <= 1, both ends included.
UvSphereRange == (0..UVOne) \X (0..UVOne)

\* Lines 174-175: int ii = iw * ap.u; int ij = ih * ap.v.
SourceColumn(iw, u) == (iw * u) \div UVOne
SourceRow(ih, v) == (ih * v) \div UVOne

\* Colours of the model's input images. A read outside the input buffer is
\* undefined and can yield any of them.
Colours == {<<COne, 0, 0>>, <<0, 0, COne>>}
StrayColours == Colours

\* Line 177: ib[iw * ij + ii]. Outside [0, total) the read is undefined.
ReadBuffer(img, idx) ==
    IF 0 <= idx /\ idx < img.total THEN {img.buffer[idx]} ELSE StrayColours

rgb_smul(a, v) == <<a * v[1], a * v[2], a * v[3]>>
rgb_add(a, b) == <<a[1] + b[1], a[2] + b[2], a[3] + b[3]>>

\* a / b rounded to the nearest unit.
RoundDiv(a, b) == (2 * a + b) \div (2 * b)

\* Line 181: rgb_smul(1.0f / kernel_sum, rgb_sum), in units of 1 / COne.
Normalized(sum, ksum) ==
    IF ksum = 0 THEN <<-1, -1, -1>>
    ELSE <<RoundDiv(sum[1], ksum), RoundDiv(sum[2], ksum), RoundDiv(sum[3], ksum)>>

\* Lines 149-157: the sizes and the radius. A zero ow or oh makes iw / ow or
\* ih / oh a division by zero: SIGFPE where the division traps, a quotient of
\* 0 where it does not.
DownEnter ==
    /\ dpc = "enter"
    /\ IF out.width = 0 \/ out.height = 0
       THEN \E traps \in BOOLEAN :
            IF traps THEN /\ dstatus' = "SIGFPE"
                          /\ dpc' = "dead"
                          /\ UNCHANGED radius
            ELSE /\ radius' = Max(IF out.width = 0 THEN 0 ELSE inp.width \div out.width,
                                  IF out.height = 0 THEN 0 ELSE inp.height \div out.height)
                                 \div 2
                 /\ dpc' = "row"
                 /\ UNCHANGED dstatus
       ELSE /\ radius' = Radius(inp.width, out.width, inp.height, out.height)
            /\ dpc' = "row"
            /\ UNCHANGED dstatus
    /\ oj' = 0
    /\ UNCHANGED <<out, inp, oi, weight, aj, ai, kernel_sum, rgb_sum, offColumn,
                   offRow, offBuffer, nsamples, sampled, last>>
    /\ UNCHANGED <<rvars, mvars>>

\* Lines 158-161: the head of the row loop, and the return after the last row.
DownRow ==
    /\ dpc = "row"
    /\ IF oj < out.height
       THEN /\ weight' = RowWeight(oj, out.height)
            /\ oi' = 0
            /\ dpc' = "pixel"
            /\ UNCHANGED dstatus
       ELSE /\ dpc' = "done"
            /\ dstatus' = "returned"
            /\ UNCHANGED <<weight, oi>>
    /\ UNCHANGED <<out, inp, radius, oj, aj, ai, kernel_sum, rgb_sum, offColumn,
                   offRow, offBuffer, nsamples, sampled, last>>
    /\ UNCHANGED <<rvars, mvars>>

NoPixel == [index |-> -1, value |-> <<0, 0, 0>>, kernel_sum |-> 0, nsamples |-> 0,
            sampled |-> {}, radius |-> 0]

\* Lines 163-171: the head of the pixel loop: the sums are cleared and both
\* kernel loops start at -radius * weight.
DownPixel ==
    /\ dpc = "pixel"
    /\ IF oi < out.width
       THEN /\ kernel_sum' = 0
            /\ rgb_sum' = <<0, 0, 0>>
            /\ aj' = (-radius) * weight
            /\ ai' = (-radius) * weight
            /\ dpc' = "kernel"
            /\ UNCHANGED oj
       ELSE /\ oj' = oj + 1
            /\ dpc' = "row"
            /\ UNCHANGED <<kernel_sum, rgb_sum, aj, ai>>
    /\ nsamples' = 0
    /\ sampled' = {}
    /\ last' = NoPixel
    /\ UNCHANGED <<out, inp, radius, oi, weight, offColumn, offRow, offBuffer, dstatus>>
    /\ UNCHANGED <<rvars, mvars>>

\* Lines 172-178: one kernel iteration. The sample direction is projected by
\* uv_sphere, turned into the indices ii and ij as they come, and the input
\* buffer is read at iw * ij + ii.
DownKernel ==
    /\ dpc = "kernel"
    /\ LET kernel == gauss(ai, aj, radius * weight) IN
       \E ap \in UvSphereRange :
        LET ii == SourceColumn(inp.width, ap[1])
            ij == SourceRow(inp.height, ap[2])
        IN \E colour \in ReadBuffer(inp, inp.width * ij + ii) :
            /\ rgb_sum' = rgb_add(rgb_sum, rgb_smul(kernel, colour))
            /\ kernel_sum' = kernel_sum + kernel
            /\ sampled' = sampled \cup {colour}
            /\ offColumn' = (offColumn \/ ii < 0 \/ ii > inp.width - 1)
            /\ offRow' = (offRow \/ ij < 0 \/ ij > inp.height - 1)
            /\ offBuffer' = (offBuffer \/ inp.width * ij + ii >= inp.total)
    /\ nsamples' = nsamples + 1
    /\ IF ai < radius * weight
       THEN /\ ai' = ai + 1
            /\ UNCHANGED <<aj, dpc>>
       ELSE /\ ai' = (-radius) * weight
            /\ aj' = aj + 1
            /\ dpc' = IF aj' <= radius * weight THEN "kernel" ELSE "store"
    /\ UNCHANGED <<out, inp, radius, oj, oi, weight, dstatus, last>>
    /\ UNCHANGED <<rvars, mvars>>

\* Line 181: ob[ow * oj + oi] = rgb_smul(1.0f / kernel_sum, rgb_sum), and oi++.
\* downsample never reads ob back: the model keeps which indices were stored,
\* and in `last` the value of the latest store.
DownStore ==
    /\ dpc = "store"
    /\ out' = [out EXCEPT !.buffer[out.width * oj + oi] = "set"]
    /\ last' = [index |-> out.width * oj + oi, value |-> Normalized(rgb_sum, kernel_sum),
                kernel_sum |-> kernel_sum, nsamples |-> nsamples, sampled |-> sampled,
                radius |-> radius]
    /\ oi' = oi + 1
    /\ dpc' = "pixel"
    /\ UNCHANGED <<inp, radius, oj, weight, aj, ai, kernel_sum, rgb_sum, offColumn,
                   offRow, offBuffer, dstatus, nsamples, sampled>>
    /\ UNCHANGED <<rvars, mvars>>

\* An image of the given size with the given pixels.
Image(name, w, h, buf) ==
    [name |-> name, width |-> w, height |-> h, total |-> w * h, buffer |-> buf]

\* The model's input images of a size: one colour throughout, or the colours
\* alternating column by column.
InputBuffers(w, h) ==
    {[k \in 0..(w * h - 1) |-> col] : col \in Colours}
        \cup {[k \in 0..(w * h - 1) |->
                 IF (k % w) % 2 = 0 THEN <<COne, 0, 0>> ELSE <<0, 0, COne>>]}

\* downsample is entered with the sizes main's check lets through and an input
\* image read_ppm returned.
StartDown ==
    /\ dpc = "enter"
    /\ \E iw \in 0..MaxIn, ih \in 0..MaxIn :
        /\ \E buf \in InputBuffers(iw, ih) : inp = Image("input", iw, ih, buf)
        /\ \E ow \in 0..MaxOut, oh \in 0..MaxOut :
            /\ ~SizeRejected(iw, ih, ow, oh)
            /\ out = Image("output.ppm", ow, oh, [k \in 0..(ow * oh - 1) |-> "unset"])
    /\ radius = 0
    /\ oj = 0
    /\ oi = 0
    /\ weight = 0
    /\ aj = 0
    /\ ai = 0
    /\ kernel_sum = 0
    /\ rgb_sum = <<0, 0, 0>>
    /\ offColumn = FALSE
    /\ offRow = FALSE
    /\ offBuffer = FALSE
    /\ dstatus = "running"
    /\ nsamples = 0
    /\ sampled = {}
    /\ last = NoPixel

\* The variables of downsample while another specification runs.
IdleDown ==
    /\ dpc = "idle"
    /\ out = Image("output.ppm", 0, 0, <<>>)
    /\ inp = Image("input", 0, 0, <<>>)
    /\ radius = 0
    /\ oj = 0
    /\ oi = 0
    /\ weight = 0
    /\ aj = 0
    /\ ai = 0
    /\ kernel_sum = 0
    /\ rgb_sum = <<0, 0, 0>>
    /\ offColumn = FALSE
    /\ offRow = FALSE
    /\ offBuffer = FALSE
    /\ dstatus = "running"
    /\ nsamples = 0
    /\ sampled = {}
    /\ last = NoPixel

\* The variables of read_ppm while another specification runs.
IdleRead ==
    /\ rpc = "idle"
    /\ c = 0
    /\ str = <<>>
    /\ integer = <<>>
    /\ image = NULL
    /\ px = 0
    /\ diag = "none"
    /\ result = "none"
    /\ status = "running"
    /\ nread = 0
    /\ atEof = FALSE
    /\ inComment = FALSE
    /\ cComment = FALSE
    /\ usedComment = FALSE
    /\ junk = FALSE
    /\ hdrEnd = -1
    /\ run = <<>>
    /\ eofAt = "none"

(***************************************************************************)
(* The specifications.                                                     *)
(***************************************************************************)
InitRead == StartRead /\ IdleMain /\ IdleDown

NextRead ==
    \/ ReadOpen
    \/ ReadMagic
    \/ ReadSeparator
    \/ ReadCommentStart
    \/ ReadCommentBody
    \/ ReadSkip
    \/ ReadDigit
    \/ ReadCheck
    \/ ReadPixel
    \/ ReadEofLabel
    \/ MainInput

SpecRead == InitRead /\ [][NextRead]_vars

InitMain == IdleRead /\ StartMain /\ IdleDown

NextMain ==
    \/ MainArgs
    \/ MainRead
    \/ MainSizeCheck
    \/ MainDownsample
    \/ WriteOpen
    \/ WriteHeader
    \/ WritePixel

SpecMain == InitMain /\ [][NextMain]_vars

InitDown == IdleRead /\ IdleMain /\ StartDown

NextDown ==
    \/ DownEnter
    \/ DownRow
    \/ DownPixel
    \/ DownKernel
    \/ DownStore

SpecDown == InitDown /\ [][NextDown]_vars

(***************************************************************************)
(* The claims.                                                             *)
(***************************************************************************)
\* C1: once the input was read and the requested size exceeds it in width or
\* in height, main never calls downsample or write_ppm, output.ppm is never
\* opened for writing, and main leaves the size check only by printing the
\* size diagnostic and returning 1.
C1_DimensionGuard ==
    (/\ input # NULL
     /\ output # NULL
     /\ (output[1].width > input[1].width \/ output[1].height > input[1].height))
    => /\ "downsample" \notin called
       /\ "write_ppm" \notin called
       /\ ~fileExists
       /\ mpc \in {"sizecheck", "exit"}
       /\ mpc = "exit" => (mstatus = "exit 1" /\ mdiag = "must be smaller or equal")

\* A run rejected for its width alone: the height fits.
C1_Witness ==
    /\ mpc = "exit"
    /\ input # NULL
    /\ output # NULL
    /\ output[1].width > input[1].width
    /\ output[1].height <= input[1].height
    /\ mstatus = "exit 1"
    /\ mdiag = "must be smaller or equal"

\* C2: a run that ends in failure (any exit other than status 0) leaves no
\* output.ppm behind: the file exists after a run only if the run ended with
\* status 0.
C2_NoOutputOnFailure ==
    (mpc = "exit" /\ mstatus # "exit 0") => ~fileExists

\* C3: when the stream ends in the header or in the pixel data, read_ppm goes
\* to its eof label, prints the EOF diagnostic and returns 0, and main exits
\* with status 1.
C3_TruncatedInput ==
    eofAt # "none"
    => /\ rpc \in {"eof", "returned", "exit"}
       /\ rpc # "eof" => diag = "EOF"
       /\ rpc = "returned" => result = "null"
       /\ rpc = "exit" => (result = "null" /\ status = "exit 1")

\* C4: no byte of a '#' comment (from the '#' to the end of its line), and so
\* no digit inside a comment, is ever stored into the string a header field
\* is converted from.
C4_CommentSkipping == ~usedComment

C6_MalformedDetected ==
    result = "image" => (~junk /\ Len(integer) = 3)

\* C7: for sizes the size check lets through, a zero width or height
\* included, downsample is not killed by a division by zero, and when it
\* returns every output index has been stored.
C7_NoErrorStates ==
    /\ dstatus # "SIGFPE"
    /\ dpc = "done" => \A k \in DOMAIN out.buffer : out.buffer[k] = "set"

\* The colours of an image's pixels.
PixelsOf(img) == {img.buffer[k] : k \in DOMAIN img.buffer}

\* Channel ch of v lies between the least and the greatest channel ch of S.
Between(v, S, ch) ==
    /\ \E s \in S : s[ch] <= v[ch]
    /\ \E s \in S : v[ch] <= s[ch]

\* C8: a pixel stored with radius > 0 has kernel_sum > 0, each of its channels
\* lies within [min, max] of that channel over the pixels sampled for it, and
\* when every input pixel has the colour C the stored pixel is C.
C8_KernelNormalization ==
    (last.index >= 0 /\ last.radius > 0)
    => /\ last.kernel_sum > 0
       /\ \A ch \in 1..3 : Between(last.value, last.sampled, ch)
       /\ \A col \in Colours : PixelsOf(inp) = {col} => last.value = col

\* C9: gauss(x, y, 0) is 1.0 for every offset; and a pixel stored with
\* radius = 0 comes from exactly one kernel iteration of weight 1, so that
\* kernel_sum is 1 and the stored pixel is one of the input's pixels.
C9_DegenerateRadius ==
    /\ \A x \in -2..2, y \in -2..2 : gauss(x, y, 0) = GOne
    /\ (last.index >= 0 /\ last.radius = 0)
       => /\ last.nsamples = 1
          /\ last.kernel_sum = GOne
          /\ last.value \in PixelsOf(inp)

\* C10: every sample's column index ii lies in [0, iw - 1] and its row index
\* ij in [0, ih - 1], so that every read of ib stays inside [0, iw * ih).
C10_SourceIndexBounds == ~offColumn /\ ~offRow /\ ~offBuffer

====
